---- MODULE Spec2Model ----
(***************************************************************************)
(* A model of fontgoggles' misc/ufoCompiler.py: the per-glyph extraction   *)
(* of code points and anchors from GLIF documents (regex fast route and    *)
(* expat fallback), the construction of cmap / revCmap / anchors with the  *)
(* duplicate code point set, the MinimalFontObject glyph lookup, the       *)
(* compileMinimumFont pipeline with its output-capturing wrapper, and the  *)
(* line-oriented ufoCompileServer loop.                                    *)
(***************************************************************************)
EXTENDS Integers, Sequences, FiniteSets, TLC

VARIABLES
    \* fetchCharacterMappingAndAnchors (ufoCompiler.py 78-118)
    glyphSet,           \* glyphSet.keys(): the glyph names of the UFO
    fpc,                \* position: "for" | "body" | "done" | "raised"
    idx,                \* number of names of sorted(glyphSet.keys()) consumed
    data,               \* the GLIF document of the current glyph (line 85)
    cmap,               \* code point -> glyph name
    revCmap,            \* glyph name -> list of code points
    anchors,            \* glyph name -> list of anchors
    duplicateUnicodes,  \* set of code points
    unicodesOf,         \* glyph name -> the list `unicodes` extracted for it
    fetchExc,           \* the exception that left the function, or "none"
    warned,             \* the logger.warning of line 117 was emitted
    \* the two extractors side by side on one document
    glif,               \* the document
    fastResult,         \* what the regex branch (lines 91-102) yields, or None
    parserResult,       \* what fetchUnicodesAndAnchors yields, or None
    \* MinimalFontObject (ufoCompiler.py 167-198)
    _glyphNames,        \* self._glyphNames
    _revCmap,           \* self._revCmap
    _anchors,           \* self._anchors
    _glyphs,            \* self._glyphs, the cache
    lookupName,         \* the argument of the last __getitem__, or None
    lookupResult,       \* what that call returned or raised
    \* compileMinimumFont_captureOutput (ufoCompiler.py 19-31)
    ufo,                \* the font source found at ufoPath
    cpc,                \* position: "call" | "else" | "return" | "done"
    f,                  \* the object the name f is bound to
    captured,           \* the text written to the StringIO of line 20
    ttFont,             \* line 23
    error,              \* lines 23, 26
    fontData,           \* `data`, lines 25, 30
    returned,           \* the tuple of line 31, or None
    \* ufoCompileServer (ufoCompiler.py 231-247)
    spc,                \* position: "read" | "try" | "done"
    input,              \* the stripped line, or None once it is served
    nRead,              \* lines read from stdin
    nServed,            \* non-empty lines read
    out,                \* everything printed, in order
    written,            \* the destination paths a font was saved to
    lastCall            \* how the last try block went

fetchVars == <<glyphSet, fpc, idx, data, cmap, revCmap, anchors,
               duplicateUnicodes, unicodesOf, fetchExc, warned>>

extractVars == <<glif, fastResult, parserResult>>

adapterVars == <<_glyphNames, _revCmap, _anchors, _glyphs, lookupName, lookupResult>>

compileVars == <<ufo, cpc, f, captured, ttFont, error, fontData, returned>>

serverVars == <<spc, input, nRead, nServed, out, written, lastCall>>

vars == <<fetchVars, extractVars, adapterVars, compileVars, serverVars>>

----------------------------------------------------------------------------
(* Python values *)

\* Python's None
None == [py |-> "None"]

\* a Python int
PyInt(n) == [py |-> "int", v |-> n]

\* a Python float with a fractional part (tenths)
PyFloat(w, t) == [py |-> "float", whole |-> w, tenths |-> t]

\* the empty dict
EmptyDict == [k \in {} |-> None]

\* d[k] = v
DictSet(d, k, v) == [x \in (DOMAIN d) \cup {k} |-> IF x = k THEN v ELSE d[x]]

\* x in list
InList(s, x) == \E i \in 1..Len(s) : s[i] = x

\* the set of a list's items
Items(s) == {s[i] : i \in 1..Len(s)}

\* a list holds no item twice
NoRepeatsIn(s) == \A i \in 1..Len(s), j \in 1..Len(s) : s[i] = s[j] => i = j

----------------------------------------------------------------------------
(* Bounds *)

\* number of glyph names a UFO may hold
MaxGlyphs == 3

\* number of unicode/anchor elements in one GLIF document
MaxElems == 2

\* the code points documents declare: U+0041, U+0042
CodePoints == {65, 66}

\* Glyph names, listed in Python's str order (code point order).
GlyphUniverse == <<".notdef", "A", "B", "C", "D", "E">>

GlyphNames == {GlyphUniverse[i] : i \in 1..MaxGlyphs}

\* position of a name in str order
Rank(n) == CHOOSE i \in 1..Len(GlyphUniverse) : GlyphUniverse[i] = n

\* sorted(names): the names as a list in str order
RECURSIVE Sorted(_)
Sorted(S) ==
    IF S = {} THEN <<>>
    ELSE LET m == CHOOSE x \in S : \A y \in S : Rank(x) <= Rank(y)
         IN  <<m>> \o Sorted(S \ {m})

----------------------------------------------------------------------------
(* GLIF documents.  A document is the list of its <unicode> and <anchor>   *)
(* elements in document order, each with the element it is a child of and  *)
(* whether it lies inside an XML comment; hasComment is b"<!--" in data.   *)
(* The hex attribute of a <unicode> element has one of four shapes:        *)
(*   "first"     hex="0041" is the first attribute, value well-formed      *)
(*   "later"     hex="0041" well-formed, after another attribute           *)
(*   "malformed" hex="ZZZZ": not a base-16 integer                         *)
(*   "missing"   no hex attribute (some other attribute is present)        *)
(* Anchor elements are self-closing, as glifLib writes them.               *)

\* a decimal attribute string such as "100" or "12.0" or "12.5"
Decimal(w, t) == [whole |-> w, tenths |-> t]

AnchorTop == [name |-> "top", x |-> Decimal(100, 0), y |-> Decimal(500, 0)]
AnchorNoY == [name |-> "bottom", x |-> Decimal(12, 0), y |-> None]
AnchorFrac == [name |-> None, x |-> Decimal(12, 5), y |-> [py |-> "str", s |-> ""]]

UnicodeElem(shape, cp, parent, commented) ==
    [tag |-> "unicode", hex |-> shape, value |-> cp, attrs |-> None,
     parent |-> parent, commented |-> commented]

AnchorElem(attrs, parent, commented) ==
    [tag |-> "anchor", hex |-> "missing", value |-> 0, attrs |-> attrs,
     parent |-> parent, commented |-> commented]

\* elements outside comments
PlainElements ==
    {UnicodeElem("first", cp, "glyph", FALSE) : cp \in CodePoints}
    \cup {UnicodeElem("later", 65, "glyph", FALSE),
          UnicodeElem("malformed", 0, "glyph", FALSE),
          UnicodeElem("missing", 0, "glyph", FALSE),
          UnicodeElem("first", 65, "lib", FALSE),
          AnchorElem(AnchorTop, "glyph", FALSE),
          AnchorElem(AnchorNoY, "guideline", FALSE)}

\* elements inside a comment
CommentedElements ==
    {UnicodeElem("first", 65, "glyph", TRUE),
     AnchorElem(AnchorFrac, "glyph", TRUE)}

SeqsUpTo(S, n) == UNION {[1..k -> S] : k \in 0..n}

DocsOver(plain, commented) ==
    {[hasComment |-> FALSE, elems |-> es] : es \in SeqsUpTo(plain, MaxElems)}
    \cup {[hasComment |-> TRUE, elems |-> es] :
            es \in SeqsUpTo(plain \cup commented, MaxElems)}

\* the documents the extractors are compared on
Docs == DocsOver(PlainElements, CommentedElements)

\* the documents a glyph set serves to the character map builder
GlyphDocs ==
    DocsOver({UnicodeElem("first", cp, "glyph", FALSE) : cp \in CodePoints}
                \cup {UnicodeElem("later", 65, "glyph", FALSE),
                      UnicodeElem("malformed", 0, "glyph", FALSE),
                      UnicodeElem("first", 65, "lib", FALSE),
                      AnchorElem(AnchorTop, "glyph", FALSE)},
             {UnicodeElem("first", 65, "glyph", TRUE)})

----------------------------------------------------------------------------
(* Extraction *)

\* _parseNumber: None for a missing or empty attribute, an int when the
\* float has no fractional part, else the float
_parseNumber(s) ==
    IF s = None \/ s = [py |-> "str", s |-> ""] THEN None
    ELSE IF s.tenths = 0 THEN PyInt(s.whole)
    ELSE PyFloat(s.whole, s.tenths)

_parseAnchorAttrs(attrs) ==
    <<attrs.name, _parseNumber(attrs.x), _parseNumber(attrs.y)>>

\* _unicodeAttributeGLIFPattern.match(rawAttributes): a match object only
\* when the attribute text starts with hex="<hex digits>"
UnicodeAttributeMatch(e) == IF e.hex = "first" THEN PyInt(e.value) ELSE None

\* One findall() hit of the fast route folded into the running result r.
FastElement(r, e) ==
    IF r.exc # "none" THEN r
    ELSE IF e.tag = "unicode" THEN
        LET m == UnicodeAttributeMatch(e) IN
        IF m = None
        THEN [r EXCEPT !.exc = "AttributeError"]    \* None.group(1)
        ELSE [r EXCEPT !.unicodes = Append(@, m.v)]
    ELSE [r EXCEPT !.anchors = Append(@, _parseAnchorAttrs(e.attrs))]

RECURSIVE FastFold(_, _, _)
FastFold(r, es, i) ==
    IF i > Len(es) THEN r ELSE FastFold(FastElement(r, es[i]), es, i + 1)

\* The regex branch: every <unicode ...> / <anchor ...> tag of the bytes,
\* wherever it sits in the document.
FastExtract(doc) ==
    FastFold([exc |-> "none", unicodes |-> <<>>, anchors |-> <<>>], doc.elems, 1)

\* FetchUnicodesAndAnchorsParser.startElementHandler for one element
StartElementHandler(r, e) ==
    IF e.commented THEN r       \* expat reports no element of a comment
    ELSE IF e.parent = "glyph" THEN
        IF e.tag = "unicode" THEN
            IF e.hex = "missing" THEN r
            ELSE IF e.hex = "malformed" THEN r      \* ValueError, passed
            ELSE IF InList(r.unicodes, e.value) THEN r
            ELSE [r EXCEPT !.unicodes = Append(@, e.value)]
        ELSE [r EXCEPT !.anchors = Append(@, _parseAnchorAttrs(e.attrs))]
    ELSE r

RECURSIVE ParserFold(_, _, _)
ParserFold(r, es, i) ==
    IF i > Len(es) THEN r ELSE ParserFold(StartElementHandler(r, es[i]), es, i + 1)

\* fetchUnicodesAndAnchors(glif)
fetchUnicodesAndAnchors(doc) ==
    ParserFold([exc |-> "none", unicodes |-> <<>>, anchors |-> <<>>], doc.elems, 1)

\* lines 86-102: the choice of route
Extract(doc) ==
    IF doc.hasComment THEN fetchUnicodesAndAnchors(doc) ELSE FastExtract(doc)

----------------------------------------------------------------------------
(* The character map builder *)

\* last writer wins
ClaimCodePoint_LastWins(acc, codePoint, glyphName) ==
    [acc EXCEPT !.cmap = DictSet(@, codePoint, glyphName),
                !.uniqueUnicodes = Append(@, codePoint),
                !.duplicateUnicodes =
                    IF codePoint \in DOMAIN acc.cmap THEN @ \cup {codePoint} ELSE @]

\* lines 105-109: one code point of the glyph
ClaimCodePoint(acc, codePoint, glyphName) ==
    IF codePoint \notin DOMAIN acc.cmap
    THEN [acc EXCEPT !.cmap = DictSet(@, codePoint, glyphName),
                     !.uniqueUnicodes = Append(@, codePoint)]
    ELSE [acc EXCEPT !.duplicateUnicodes = @ \cup {codePoint}]

RECURSIVE ClaimAll(_, _, _, _)
ClaimAll(acc, unicodes, glyphName, i) ==
    IF i > Len(unicodes) THEN acc
    ELSE ClaimAll(ClaimCodePoint(acc, unicodes[i], glyphName), unicodes, glyphName, i + 1)

\* revCmap gets every extracted code point
StoreRevCmap_All(rev, glyphName, uniqueUnicodes, unicodes) ==
    IF unicodes # <<>> THEN DictSet(rev, glyphName, unicodes) ELSE rev

\* lines 112-113
StoreRevCmap(rev, glyphName, uniqueUnicodes, unicodes) ==
    IF uniqueUnicodes # <<>> THEN DictSet(rev, glyphName, uniqueUnicodes) ELSE rev

\* lines 103-113: the extracted lists x of one glyph merged into the maps st
MergeGlyph(st, glyphName, x) ==
    IF x.exc # "none" THEN [st EXCEPT !.exc = x.exc]
    ELSE
        LET acc == ClaimAll([cmap |-> st.cmap, uniqueUnicodes |-> <<>>,
                             duplicateUnicodes |-> st.duplicateUnicodes],
                            x.unicodes, glyphName, 1)
        IN  [exc |-> "none",
             cmap |-> acc.cmap,
             revCmap |-> StoreRevCmap(st.revCmap, glyphName, acc.uniqueUnicodes, x.unicodes),
             anchors |-> IF x.anchors # <<>>
                         THEN DictSet(st.anchors, glyphName, x.anchors)
                         ELSE st.anchors,
             duplicateUnicodes |-> acc.duplicateUnicodes]

\* lines 86-113: the loop body for one glyph, on the maps st
ProcessGlyph(st, glyphName, doc) == MergeGlyph(st, glyphName, Extract(doc))

\* the maps as the running function holds them
Maps == [exc |-> "none", cmap |-> cmap, revCmap |-> revCmap, anchors |-> anchors,
         duplicateUnicodes |-> duplicateUnicodes]

\* sorted(glyphSet.keys())
glyphOrderOfFetch == Sorted(glyphSet)

\* the glyph of the current iteration
glyphName == glyphOrderOfFetch[idx + 1]

----------------------------------------------------------------------------
(* Each specification below runs one part of the module; the variables of  *)
(* the other parts rest at these values.                                   *)

FetchAtRest ==
    /\ glyphSet = {}
    /\ fpc = "rest"
    /\ idx = 0
    /\ data = None
    /\ cmap = EmptyDict
    /\ revCmap = EmptyDict
    /\ anchors = EmptyDict
    /\ duplicateUnicodes = {}
    /\ unicodesOf = EmptyDict
    /\ fetchExc = "none"
    /\ warned = FALSE

ExtractAtRest ==
    /\ glif = None
    /\ fastResult = None
    /\ parserResult = None

AdapterAtRest ==
    /\ _glyphNames = {}
    /\ _revCmap = EmptyDict
    /\ _anchors = EmptyDict
    /\ _glyphs = EmptyDict
    /\ lookupName = None
    /\ lookupResult = None

CompileAtRest ==
    /\ ufo = None
    /\ cpc = "rest"
    /\ f = None
    /\ captured = <<>>
    /\ ttFont = None
    /\ error = None
    /\ fontData = None
    /\ returned = None

ServerAtRest ==
    /\ spc = "rest"
    /\ input = None
    /\ nRead = 0
    /\ nServed = 0
    /\ out = <<>>
    /\ written = {}
    /\ lastCall = None

----------------------------------------------------------------------------
(* fetchCharacterMappingAndAnchors as a state machine *)

InitFetch ==
    /\ glyphSet \in SUBSET GlyphNames
    /\ fpc = "for"
    /\ idx = 0
    /\ data = None
    /\ cmap = EmptyDict
    /\ revCmap = EmptyDict
    /\ anchors = EmptyDict
    /\ duplicateUnicodes = {}
    /\ unicodesOf = EmptyDict
    /\ fetchExc = "none"
    /\ warned = FALSE
    /\ ExtractAtRest /\ AdapterAtRest /\ CompileAtRest /\ ServerAtRest

\* lines 84-85: the next glyph name and its GLIF bytes
GetGLIF ==
    /\ fpc = "for"
    /\ idx < Len(glyphOrderOfFetch)
    /\ \E doc \in GlyphDocs : data' = doc
    /\ fpc' = "body"
    /\ UNCHANGED <<glyphSet, idx, cmap, revCmap, anchors, duplicateUnicodes,
                   unicodesOf, fetchExc, warned>>
    /\ UNCHANGED <<extractVars, adapterVars, compileVars, serverVars>>

\* the effect of lines 86-113 on the function's state, the extractor having
\* returned (or raised) x
BodyEffect(x) ==
    LET r == MergeGlyph(Maps, glyphName, x) IN
    IF r.exc # "none"
    THEN /\ fetchExc' = r.exc
         /\ fpc' = "raised"
         /\ UNCHANGED <<idx, cmap, revCmap, anchors, duplicateUnicodes, unicodesOf>>
    ELSE /\ cmap' = r.cmap
         /\ revCmap' = r.revCmap
         /\ anchors' = r.anchors
         /\ duplicateUnicodes' = r.duplicateUnicodes
         /\ unicodesOf' = DictSet(unicodesOf, glyphName, x.unicodes)
         /\ idx' = idx + 1
         /\ fpc' = "for"
         /\ UNCHANGED fetchExc

\* what lines 86-102 yield over the documents a glyph set may serve
ExtractResults == {Extract(doc) : doc \in GlyphDocs}

\* lines 86-113: extraction and merge for the current glyph
LoopBody ==
    /\ fpc = "body"
    /\ BodyEffect(Extract(data))
    /\ data' = None
    /\ UNCHANGED <<glyphSet, warned>>
    /\ UNCHANGED <<extractVars, adapterVars, compileVars, serverVars>>

\* lines 84-113: one whole iteration of the loop
Iteration ==
    /\ fpc = "for"
    /\ idx < Len(glyphOrderOfFetch)
    /\ \E x \in ExtractResults : BodyEffect(x)
    /\ UNCHANGED <<glyphSet, data, warned>>
    /\ UNCHANGED <<extractVars, adapterVars, compileVars, serverVars>>

\* lines 115-118: the warning and the return
LogAndReturn ==
    /\ fpc = "for"
    /\ idx = Len(glyphOrderOfFetch)
    /\ warned' = (duplicateUnicodes # {})
    /\ fpc' = "done"
    /\ UNCHANGED <<glyphSet, idx, data, cmap, revCmap, anchors, duplicateUnicodes,
                   unicodesOf, fetchExc>>
    /\ UNCHANGED <<extractVars, adapterVars, compileVars, serverVars>>

\* one step per loop iteration
NextFetch == Iteration \/ LogAndReturn

SpecFetch == InitFetch /\ [][NextFetch]_vars

\* the iteration in two steps, the document in hand between them
NextFetchSteps == GetGLIF \/ LoopBody \/ LogAndReturn

SpecFetchSteps == InitFetch /\ [][NextFetchSteps]_vars

----------------------------------------------------------------------------
(* The two extractors on one document *)

InitExtract ==
    /\ glif \in Docs
    /\ fastResult = None
    /\ parserResult = None
    /\ FetchAtRest /\ AdapterAtRest /\ CompileAtRest /\ ServerAtRest

\* lines 91-102, the branch taken for a document without "<!--"
RunFastRoute ==
    /\ ~glif.hasComment
    /\ fastResult = None
    /\ fastResult' = FastExtract(glif)
    /\ UNCHANGED <<glif, parserResult>>
    /\ UNCHANGED <<fetchVars, adapterVars, compileVars, serverVars>>

\* lines 121-127, fetchUnicodesAndAnchors on the same bytes
RunParser ==
    /\ parserResult = None
    /\ parserResult' = fetchUnicodesAndAnchors(glif)
    /\ UNCHANGED <<glif, fastResult>>
    /\ UNCHANGED <<fetchVars, adapterVars, compileVars, serverVars>>

NextExtract == RunFastRoute \/ RunParser

SpecExtract == InitExtract /\ [][NextExtract]_vars

----------------------------------------------------------------------------
(* MinimalFontObject *)

\* a Python list
PyList(s) == [py |-> "list", items |-> s]

\* a Python str
PyStr(s) == [py |-> "str", s |-> s]

\* MinimalAnchorObject(name, x, y)
MinimalAnchorObject(a) == [py |-> "MinimalAnchorObject", name |-> a[1], x |-> a[2], y |-> a[3]]

\* MinimalGlyphObject(name, unicodes, anchors), lines 203-206
MinimalGlyphObject(name, unicodes, anchorList) ==
    [py |-> "MinimalGlyphObject", name |-> name, unicodes |-> unicodes,
     anchors |-> PyList([i \in 1..Len(anchorList) |-> MinimalAnchorObject(anchorList[i])])]

\* dict.get(key), None by default
DictGet(d, k) == IF k \in DOMAIN d THEN d[k] ELSE None

\* line 196: the glyph built on a cache miss
NewGlyph(name) ==
    MinimalGlyphObject(name,
        IF name \in DOMAIN _revCmap THEN PyList(_revCmap[name]) ELSE None,
        IF name \in DOMAIN _anchors THEN _anchors[name] ELSE <<>>)

\* line 197: what the cache keeps for name
CacheEntry(name, glyph) == PyStr(name)

\* the names lookups are tried with: every glyph name and one no UFO holds
LookupNames == GlyphNames \cup {".notdef", "nonexistent"}

\* non-empty lists without repeats over the code points
CodePointLists ==
    {s \in SeqsUpTo(CodePoints, Cardinality(CodePoints)) : s # <<>> /\ NoRepeatsIn(s)}

\* the revCmap dicts fetchCharacterMappingAndAnchors can return for the names S
RevCmapsOver(S) ==
    {r \in UNION {[T -> CodePointLists] : T \in SUBSET S} :
        \A g \in DOMAIN r, h \in DOMAIN r : g # h => Items(r[g]) \cap Items(r[h]) = {}}

\* the anchors dicts it can return for the names S
AnchorsOver(S) ==
    UNION {[T -> {<<_parseAnchorAttrs(AnchorTop)>>,
                   <<_parseAnchorAttrs(AnchorTop), _parseAnchorAttrs(AnchorFrac)>>}] :
            T \in SUBSET S}

\* lines 175-185
InitAdapter ==
    /\ \E S \in SUBSET GlyphNames :
        /\ _glyphNames = S \cup {".notdef"}
        /\ _revCmap \in RevCmapsOver(S)
        /\ _anchors \in AnchorsOver(S)
    /\ _glyphs = EmptyDict
    /\ lookupName = None
    /\ lookupResult = None
    /\ FetchAtRest /\ ExtractAtRest /\ CompileAtRest /\ ServerAtRest

\* lines 190-198: font[name]
GetItem ==
    \E name \in LookupNames :
        /\ lookupName' = PyStr(name)
        /\ IF name \notin _glyphNames
           THEN /\ lookupResult' = [py |-> "KeyError", key |-> name]
                /\ UNCHANGED _glyphs
           ELSE LET glyph == DictGet(_glyphs, name) IN
                IF glyph = None
                THEN /\ _glyphs' = DictSet(_glyphs, name, CacheEntry(name, NewGlyph(name)))
                     /\ lookupResult' = NewGlyph(name)
                ELSE /\ lookupResult' = glyph
                     /\ UNCHANGED _glyphs
        /\ UNCHANGED <<_glyphNames, _revCmap, _anchors>>
        /\ UNCHANGED <<fetchVars, extractVars, compileVars, serverVars>>

NextAdapter == GetItem

SpecAdapter == InitAdapter /\ [][NextAdapter]_vars

----------------------------------------------------------------------------
(* compileMinimumFont *)

\* the documents the glyphs of a compiled UFO are drawn from
CompileDocs ==
    {[hasComment |-> FALSE, elems |-> <<>>],
     [hasComment |-> FALSE, elems |-> <<UnicodeElem("first", 65, "glyph", FALSE)>>],
     [hasComment |-> FALSE, elems |-> <<UnicodeElem("first", 66, "glyph", FALSE),
                                        AnchorElem(AnchorTop, "glyph", FALSE)>>],
     [hasComment |-> FALSE, elems |-> <<UnicodeElem("malformed", 0, "glyph", FALSE)>>],
     [hasComment |-> TRUE, elems |-> <<UnicodeElem("first", 65, "glyph", FALSE),
                                       UnicodeElem("first", 65, "glyph", TRUE)>>]}

\* A font source on disk: whether a readable UFO is there at all, its glyph
\* documents by name, unitsPerEm of fontinfo.plist (None when the key is
\* absent), and whether its feature text compiles.
UFOs ==
    {[exists |-> FALSE, glyphs |-> EmptyDict, unitsPerEm |-> None, featuresOK |-> TRUE]}
    \cup {[exists |-> TRUE, glyphs |-> g, unitsPerEm |-> u, featuresOK |-> ok] :
            g \in UNION {[S -> CompileDocs] : S \in SUBSET GlyphNames},
            u \in {None, Decimal(1000, 0), Decimal(2048, 5)},
            ok \in BOOLEAN}

\* traceback.format_exc() for an exception of the given type
FormatExc(excType) == PyStr(<<"Traceback (most recent call last):", excType>>)

\* round(x): to the nearest integer, halves to the even one
Round(d) ==
    IF d.tenths < 5 THEN d.whole
    ELSE IF d.tenths > 5 THEN d.whole + 1
    ELSE IF d.whole % 2 = 0 THEN d.whole ELSE d.whole + 1

\* lines 49-52
GlyphOrderOf(names) ==
    IF ".notdef" \in names THEN Sorted(names) ELSE <<".notdef">> \o Sorted(names)

RECURSIVE FetchFold(_, _, _, _)
FetchFold(st, order, glyphs, i) ==
    IF i > Len(order) \/ st.exc # "none" THEN st
    ELSE FetchFold(ProcessGlyph(st, order[i], glyphs[order[i]]), order, glyphs, i + 1)

\* fetchCharacterMappingAndAnchors(glyphSet, ufoPath), the whole call
fetchCharacterMappingAndAnchors(glyphs) ==
    LET st == FetchFold([exc |-> "none", cmap |-> EmptyDict, revCmap |-> EmptyDict,
                         anchors |-> EmptyDict, duplicateUnicodes |-> {}],
                        Sorted(DOMAIN glyphs), glyphs, 1)
    IN  [exc |-> st.exc, cmap |-> st.cmap, revCmap |-> st.revCmap, anchors |-> st.anchors,
         log |-> IF st.exc = "none" /\ st.duplicateUnicodes # {}
                 THEN <<"Some code points are assigned to multiple glyphs">>
                 ELSE <<>>]

\* the exception of feaComp.compile() leaves compileMinimumFont
TryFeatureCompile_Propagates(featuresOK) ==
    IF featuresOK THEN [exc |-> "none", error |-> None]
    ELSE [exc |-> "FeatureLibError", error |-> None]

\* lines 61-66
TryFeatureCompile(featuresOK) ==
    IF featuresOK THEN [exc |-> "none", error |-> None]
    ELSE [exc |-> "none", error |-> FormatExc("FeatureLibError")]

Raises(excType, log) == [exc |-> excType, ttFont |-> None, error |-> None, log |-> log]

\* compileMinimumFont(ufoPath), for the font source u found there: what it
\* raises or returns, and what it logs on the way
compileMinimumFont(u) ==
    IF ~u.exists THEN Raises("UFOLibError", <<>>)                       \* line 44
    ELSE
        LET glyphOrder == GlyphOrderOf(DOMAIN u.glyphs)                 \* lines 49-52
            fetched == fetchCharacterMappingAndAnchors(u.glyphs)        \* line 53
        IN
        IF fetched.exc # "none" THEN Raises(fetched.exc, fetched.log)
        ELSE IF u.unitsPerEm = None THEN Raises("AttributeError", fetched.log)  \* line 54
        ELSE
            LET fea == TryFeatureCompile(u.featuresOK)                  \* lines 60-66
                font == [unitsPerEm |-> Round(u.unitsPerEm),            \* lines 54-58
                         glyphOrder |-> glyphOrder,
                         cmap |-> fetched.cmap,
                         post |-> TRUE,
                         layout |-> u.featuresOK]
            IN  IF fea.exc # "none" THEN Raises(fea.exc, fetched.log)
                ELSE [exc |-> "none", ttFont |-> font, error |-> fea.error,
                      log |-> fetched.log]                              \* line 67

----------------------------------------------------------------------------
(* compileMinimumFont_captureOutput *)

\* a Python bytes object: the serialization of a font
PyBytes(font) == [py |-> "bytes", font |-> font]

InitCompile ==
    /\ ufo \in UFOs
    /\ cpc = "call"
    /\ f = "StringIO"                   \* line 20
    /\ captured = <<>>
    /\ ttFont = None
    /\ error = None
    /\ fontData = None
    /\ returned = None
    /\ FetchAtRest /\ ExtractAtRest /\ AdapterAtRest /\ ServerAtRest

\* lines 21-26: the build under redirect_stdout / redirect_stderr
CaptureCall ==
    /\ cpc = "call"
    /\ LET r == compileMinimumFont(ufo) IN
        /\ captured' = r.log
        /\ IF r.exc # "none"
           THEN /\ fontData' = None
                /\ error' = FormatExc(r.exc)
                /\ cpc' = "return"
                /\ UNCHANGED ttFont
           ELSE /\ ttFont' = r.ttFont
                /\ error' = r.error
                /\ cpc' = "else"
                /\ UNCHANGED fontData
    /\ UNCHANGED <<ufo, f, returned>>
    /\ UNCHANGED <<fetchVars, extractVars, adapterVars, serverVars>>

\* lines 28-30: the else branch
CaptureElse ==
    /\ cpc = "else"
    /\ f' = "BytesIO"
    /\ fontData' = PyBytes(ttFont)
    /\ cpc' = "return"
    /\ UNCHANGED <<ufo, captured, ttFont, error, returned>>
    /\ UNCHANGED <<fetchVars, extractVars, adapterVars, serverVars>>

\* f.getvalue() on whatever f is bound to at line 31
GetValue == IF f = "StringIO" THEN PyStr(captured) ELSE fontData

\* line 31
CaptureReturn ==
    /\ cpc = "return"
    /\ returned' = <<fontData, GetValue, error>>
    /\ cpc' = "done"
    /\ UNCHANGED <<ufo, f, captured, ttFont, error, fontData>>
    /\ UNCHANGED <<fetchVars, extractVars, adapterVars, serverVars>>

NextCompile == CaptureCall \/ CaptureElse \/ CaptureReturn

SpecCompile == InitCompile /\ [][NextCompile]_vars

----------------------------------------------------------------------------
(* ufoCompileServer *)

\* lines stdin may hold before it ends
MaxLines == 2

\* characters in a line, its newline aside
MaxLineLen == 4

ERROR_MARKER == "---- ERROR ----"
SUCCESS_MARKER == "---- SUCCESS ----"

\* a line is a string over a blank, a quote and a letter
Chars == {" ", "'", "a"}

Lines == SeqsUpTo(Chars, MaxLineLen)

RECURSIVE LStrip(_)
LStrip(s) == IF s # <<>> /\ Head(s) = " " THEN LStrip(Tail(s)) ELSE s

RECURSIVE RStrip(_)
RStrip(s) ==
    IF s # <<>> /\ s[Len(s)] = " " THEN RStrip(SubSeq(s, 1, Len(s) - 1)) ELSE s

\* str.strip()
Strip(s) == RStrip(LStrip(s))

\* shlex's reader, character by character: st holds the tokens so far, the
\* token being read, whether a token is open and whether a quote is
RECURSIVE ShlexScan(_, _, _)
ShlexScan(st, s, i) ==
    IF i > Len(s) THEN st
    ELSE LET c == s[i] IN
        ShlexScan(
            IF st.inQuote THEN
                IF c = "'" THEN [st EXCEPT !.inQuote = FALSE]
                ELSE [st EXCEPT !.token = Append(@, c)]
            ELSE IF c = " " THEN
                IF st.inToken
                THEN [st EXCEPT !.tokens = Append(@, st.token), !.token = <<>>,
                                !.inToken = FALSE]
                ELSE st
            ELSE IF c = "'" THEN [st EXCEPT !.inQuote = TRUE, !.inToken = TRUE]
            ELSE [st EXCEPT !.token = Append(@, c), !.inToken = TRUE],
            s, i + 1)

\* shlex.split(s): the tokens, or ValueError for a quote left open
ShlexSplit(s) ==
    LET st == ShlexScan([tokens |-> <<>>, token |-> <<>>, inToken |-> FALSE,
                         inQuote |-> FALSE], s, 1)
    IN  IF st.inQuote THEN [exc |-> "ValueError", tokens |-> <<>>]
        ELSE [exc |-> "none",
              tokens |-> IF st.inToken THEN Append(st.tokens, st.token) ELSE st.tokens]

\* what readline() then strip() can leave in `input`
StrippedLines == {Strip(l) : l \in Lines}

\* what compileMinimumFont can do for the font sources a path may name
CompileOutcomes ==
    {[exc |-> r.exc, error |-> r.error, hasFont |-> r.ttFont # None] :
        r \in {compileMinimumFont(u) : u \in UFOs}}

Stdout(text) == [stream |-> "stdout", text |-> text]

\* traceback.print_exc()
PrintExc == [stream |-> "stderr", text |-> PyStr("Traceback (most recent call last):")]

\* how a try block went: the line split into (ufoPath, ttPath), the compile
\* returned, the save returned; ttPath when the split gave one
CallRecord(split, compiled, saved, ttPath) ==
    [split |-> split, compiled |-> compiled, saved |-> saved, ttPath |-> ttPath]

\* the except branch, lines 243-245
Failed(events, call) == [events |-> events \o <<PrintExc, Stdout(PyStr(ERROR_MARKER))>>,
                         wrote |-> None, call |-> call]

\* a split that yields other than two tokens prints no marker
TryBlock_SilentOnBadSplit(line, o, saveOK) ==
    LET split == ShlexSplit(line) IN
    IF split.exc # "none" \/ Len(split.tokens) # 2
    THEN [events |-> <<>>, wrote |-> None, call |-> CallRecord(FALSE, FALSE, FALSE, None)]
    ELSE IF o.exc # "none"
    THEN Failed(<<>>, CallRecord(TRUE, FALSE, FALSE, PyStr(split.tokens[2])))
    ELSE LET printed == IF o.error # None THEN <<Stdout(o.error)>> ELSE <<>> IN
        IF ~saveOK
        THEN Failed(printed, CallRecord(TRUE, TRUE, FALSE, PyStr(split.tokens[2])))
        ELSE [events |-> printed \o <<Stdout(PyStr(SUCCESS_MARKER))>>,
              wrote |-> PyStr(split.tokens[2]),
              call |-> CallRecord(TRUE, TRUE, TRUE, PyStr(split.tokens[2]))]

\* lines 237-247 for one line: o is what compileMinimumFont does for the
\* source path, saveOK whether ttFont.save(ttPath) succeeds
TryBlock(line, o, saveOK) ==
    LET split == ShlexSplit(line) IN
    IF split.exc # "none" \/ Len(split.tokens) # 2                     \* line 238
    THEN Failed(<<>>, CallRecord(FALSE, FALSE, FALSE, None))
    ELSE IF o.exc # "none"                                              \* line 239
    THEN Failed(<<>>, CallRecord(TRUE, FALSE, FALSE, PyStr(split.tokens[2])))
    ELSE LET printed == IF o.error # None THEN <<Stdout(o.error)>> ELSE <<>> IN
        IF ~saveOK                                                      \* line 242
        THEN Failed(printed, CallRecord(TRUE, TRUE, FALSE, PyStr(split.tokens[2])))
        ELSE [events |-> printed \o <<Stdout(PyStr(SUCCESS_MARKER))>>,
              wrote |-> PyStr(split.tokens[2]),
              call |-> CallRecord(TRUE, TRUE, TRUE, PyStr(split.tokens[2]))]

InitServer ==
    /\ spc = "read"
    /\ input = None
    /\ nRead = 0
    /\ nServed = 0
    /\ out = <<>>
    /\ written = {}
    /\ lastCall = None
    /\ FetchAtRest /\ ExtractAtRest /\ AdapterAtRest /\ CompileAtRest

\* lines 233-236: a line of stdin, or "" at its end
ReadLine ==
    /\ spc = "read"
    /\ IF nRead < MaxLines
       THEN /\ \E line \in StrippedLines : input' = PyStr(line)
            /\ nRead' = nRead + 1
       ELSE /\ input' = PyStr(<<>>)
            /\ UNCHANGED nRead
    /\ IF input'.s = <<>>
       THEN spc' = "done" /\ UNCHANGED nServed
       ELSE spc' = "try" /\ nServed' = nServed + 1
    /\ UNCHANGED <<out, written, lastCall>>
    /\ UNCHANGED <<fetchVars, extractVars, adapterVars, compileVars>>

\* lines 237-247: the try block; the line is spent once it is served
Serve ==
    /\ spc = "try"
    /\ \E o \in CompileOutcomes, saveOK \in BOOLEAN :
        LET t == TryBlock(input.s, o, saveOK) IN
        /\ out' = out \o t.events
        /\ written' = IF t.wrote = None THEN written ELSE written \cup {t.wrote}
        /\ lastCall' = t.call
    /\ input' = None
    /\ spc' = "read"
    /\ UNCHANGED <<nRead, nServed>>
    /\ UNCHANGED <<fetchVars, extractVars, adapterVars, compileVars>>

NextServer == ReadLine \/ Serve

SpecServer == InitServer /\ [][NextServer]_vars

----------------------------------------------------------------------------
(* Properties of the character map builder *)

\* the extractor returned codePoint for glyph g
Declares(g, codePoint) == g \in DOMAIN unicodesOf /\ InList(unicodesOf[g], codePoint)

\* no glyph that sorts before g declares codePoint
FirstDeclarer(g, codePoint) ==
    \A h \in glyphSet : Declares(h, codePoint) => Rank(g) <= Rank(h)

\* C1 as stated: after the build, whenever two different glyphs a and b both
\* declare the code point cp and a sorts before b, cmap[cp] = a and cp is in
\* duplicateUnicodes.
C1_EarlierOfAnyPairWins ==
    fpc = "done" =>
        \A a \in glyphSet, b \in glyphSet, cp \in CodePoints :
            (a # b /\ Rank(a) < Rank(b) /\ Declares(a, cp) /\ Declares(b, cp))
                => (cp \in DOMAIN cmap /\ cmap[cp] = a /\ cp \in duplicateUnicodes)

\* C1 amended: after the build, whenever two different glyphs a and b both
\* declare the code point cp and a is the first glyph in sorted order that
\* declares cp, cmap[cp] = a and cp is in duplicateUnicodes.
C1_FirstDeclarerWins ==
    fpc = "done" =>
        \A a \in glyphSet, b \in glyphSet, cp \in CodePoints :
            (a # b /\ FirstDeclarer(a, cp) /\ Declares(a, cp) /\ Declares(b, cp))
                => (cp \in DOMAIN cmap /\ cmap[cp] = a /\ cp \in duplicateUnicodes)

\* the build is over and two different glyphs declared one code point
C1_Witness ==
    /\ fpc = "done"
    /\ \E a \in glyphSet, b \in glyphSet, cp \in CodePoints :
            a # b /\ FirstDeclarer(a, cp) /\ Declares(a, cp) /\ Declares(b, cp)

\* C2: after any prefix of the sorted glyph names, every cp with
\* cmap[cp] = g is listed in revCmap[g]; every cp listed in revCmap[g] has
\* cmap[cp] = g; no revCmap entry lists a code point twice; no entry is empty.
C2_MapsConsistent ==
    /\ \A cp \in DOMAIN cmap :
            cmap[cp] \in DOMAIN revCmap /\ InList(revCmap[cmap[cp]], cp)
    /\ \A g \in DOMAIN revCmap :
            /\ revCmap[g] # <<>>
            /\ NoRepeatsIn(revCmap[g])
            /\ \A cp \in Items(revCmap[g]) : cp \in DOMAIN cmap /\ cmap[cp] = g

\* two glyphs hold entries and a third code point claim was refused
C2_Witness ==
    /\ idx >= 2
    /\ Cardinality(DOMAIN revCmap) >= 2
    /\ duplicateUnicodes # {}

IsMalformedUnicode(e) == e.tag = "unicode" /\ e.hex = "malformed"

HasMalformed(doc) == \E i \in 1..Len(doc.elems) : IsMalformedUnicode(doc.elems[i])

\* the document with its malformed unicode declarations taken out
WithoutMalformed(doc) ==
    [doc EXCEPT !.elems = SelectSeq(@, LAMBDA e : ~IsMalformedUnicode(e))]

\* C3: a unicode declaration with a malformed hex value is skipped silently
\* on either route: the loop body raises nothing, moves on to the next
\* glyph, and leaves cmap, revCmap, anchors and duplicateUnicodes as the same
\* document without that declaration would.
C3_MalformedHexSkipped ==
    [][(fpc = "body" /\ HasMalformed(data)
            /\ Extract(WithoutMalformed(data)).exc = "none")
        => LET r == ProcessGlyph(Maps, glyphName, WithoutMalformed(data)) IN
            /\ fetchExc' = "none"
            /\ fpc' = "for"
            /\ idx' = idx + 1
            /\ cmap' = r.cmap
            /\ revCmap' = r.revCmap
            /\ anchors' = r.anchors
            /\ duplicateUnicodes' = r.duplicateUnicodes]_vars

\* C10: a code point enters duplicateUnicodes (and the warning is logged)
\* only when two different glyphs declared it; a glyph repeating its own
\* code point causes neither.
C10_CollisionNeedsTwoGlyphs ==
    /\ \A cp \in duplicateUnicodes :
            \E a \in glyphSet, b \in glyphSet :
                a # b /\ Declares(a, cp) /\ Declares(b, cp)
    /\ warned => \E cp \in CodePoints : \E a \in glyphSet, b \in glyphSet :
                a # b /\ Declares(a, cp) /\ Declares(b, cp)

----------------------------------------------------------------------------
(* Properties of the extractors *)

\* C4: on a document without a comment marker the regex branch and
\* fetchUnicodesAndAnchors both return, with the same code points and the
\* same anchors in the same order.
C4_FastEqualsParser ==
    (~glif.hasComment /\ fastResult # None /\ parserResult # None)
        => /\ fastResult.exc = "none"
           /\ parserResult.exc = "none"
           /\ fastResult.unicodes = parserResult.unicodes
           /\ fastResult.anchors = parserResult.anchors

----------------------------------------------------------------------------
(* Properties of MinimalFontObject *)

\* glyph.unicodes as a caller reads it off what font[name] returned
ReadUnicodes(v) ==
    IF v.py = "MinimalGlyphObject" THEN v.unicodes ELSE [py |-> "AttributeError"]

\* C5: for a known glyph name g, font[g].unicodes is revCmap[g] when g has
\* an entry and the empty list when it has none.
C5_UnicodesRoundTrip ==
    (lookupName # None /\ lookupName.s \in _glyphNames)
        => ReadUnicodes(lookupResult) =
            PyList(IF lookupName.s \in DOMAIN _revCmap THEN _revCmap[lookupName.s] ELSE <<>>)

\* the glyph view of name g over the adapter's maps
IsGlyphViewOf(v, g) ==
    /\ v.py = "MinimalGlyphObject"
    /\ v.name = g
    /\ v = NewGlyph(g)

\* C6: every lookup of a known name returns the glyph view of that name,
\* first and repeated lookups alike; the cache maps a name only to the glyph
\* view built for it; a lookup of an unknown name raises KeyError and puts
\* nothing in the cache.
C6_LookupReturnsGlyphView ==
    /\ \A g \in DOMAIN _glyphs : g \in _glyphNames /\ IsGlyphViewOf(_glyphs[g], g)
    /\ lookupName # None =>
        IF lookupName.s \in _glyphNames
        THEN IsGlyphViewOf(lookupResult, lookupName.s)
        ELSE lookupResult = [py |-> "KeyError", key |-> lookupName.s]

----------------------------------------------------------------------------
(* Properties of the compile functions *)

\* compileMinimumFont gets as far as feaComp.compile() on u
ReachesFeatureCompiler(u) ==
    /\ u.exists
    /\ u.unitsPerEm # None
    /\ fetchCharacterMappingAndAnchors(u.glyphs).exc = "none"

\* C7: the tuple returned is (data, output, error) with output the text
\* captured from stdout/stderr, when the build succeeded (data the font
\* bytes) and when it raised (data None, error the trace); output is never
\* the font bytes.
C7_SecondElementIsCapturedText ==
    cpc = "done" =>
        /\ returned[2] = PyStr(captured)
        /\ returned[2].py # "bytes"
        /\ returned[1] = None => returned[3] # None

\* C8: when feaComp.compile() raises, compileMinimumFont still returns the
\* font built so far (glyph order, character map, post table) together with
\* a non-empty error text; and whenever it returns, error is None exactly
\* when the feature compiler did not raise.
C8_FeatureFailureReturned ==
    (cpc # "call" /\ ReachesFeatureCompiler(ufo)) =>
        /\ ttFont # None
        /\ ttFont.glyphOrder = GlyphOrderOf(DOMAIN ufo.glyphs)
        /\ ttFont.cmap = fetchCharacterMappingAndAnchors(ufo.glyphs).cmap
        /\ ttFont.post
        /\ (error = None) <=> ufo.featuresOK
        /\ ~ufo.featuresOK => (error.py = "str" /\ error.s # <<>>)

\* compileMinimumFont returned a font and the trace of a failed feature
\* compilation
C8_Witness ==
    /\ cpc = "else"
    /\ ~ufo.featuresOK
    /\ ttFont # None
    /\ error # None
    /\ DOMAIN ttFont.cmap # {}

----------------------------------------------------------------------------
(* Properties of the server loop *)

IsMarker(e) == e = Stdout(PyStr(SUCCESS_MARKER)) \/ e = Stdout(PyStr(ERROR_MARKER))

\* the marker lines printed so far
Markers == SelectSeq(out, IsMarker)

\* C9: every non-empty line read before the first empty one gets exactly one
\* marker before the next line is read; the marker is SUCCESS only if the
\* line split into two tokens, the compile returned and the font was saved
\* to the destination; it is ERROR, with the trace before it, if one of those
\* steps raised; the loop goes on reading after an error; and the first empty
\* line ends the loop without a marker of its own.
C9_OneMarkerPerLine ==
    /\ spc \in {"read", "done"} => Len(Markers) = nServed
    /\ spc = "try" => Len(Markers) = nServed - 1
    /\ (spc = "read" /\ lastCall # None) =>
        /\ out[Len(out)] = Stdout(PyStr(SUCCESS_MARKER))
            <=> (lastCall.split /\ lastCall.compiled /\ lastCall.saved)
        /\ out[Len(out)] = Stdout(PyStr(SUCCESS_MARKER)) => lastCall.ttPath \in written
        /\ ~(lastCall.split /\ lastCall.compiled /\ lastCall.saved)
            => (out[Len(out)] = Stdout(PyStr(ERROR_MARKER)) /\ out[Len(out) - 1] = PrintExc)
    /\ spc = "done" => input = PyStr(<<>>)
    /\ spc = "try" => input.s # <<>>

\* an error marker, then a success marker, then the empty line
C9_Witness ==
    /\ spc = "done"
    /\ Len(Markers) = 2
    /\ Markers[1] = Stdout(PyStr(ERROR_MARKER))
    /\ Markers[2] = Stdout(PyStr(SUCCESS_MARKER))
    /\ nRead = 2

====
